---- MODULE Spec2Model ----
(***************************************************************************)
(* HotMediaDaily (src/plugins/__init__.py): a host plugin that registers   *)
(* one cron job on load(), removes it on unload(), and on each firing      *)
(* fetches two trending listings, formats them and sends one notification. *)
(*                                                                         *)
(* Python values are records [k, s]: k is the kind ("str", "int", "none",  *)
(* "missing" for an absent key), s the characters of a string or the       *)
(* digits of a number, one character per element.  The scheduler, the      *)
(* notification sink and the HTTP API belong to the host and the network:  *)
(* each call of theirs is an input that either returns or raises.          *)
(***************************************************************************)
EXTENDS Integers, Sequences, FiniteSets, TLC

VARIABLES
    config,        \* self.config: the mapping read once in __init__
    schedule_job,  \* self.schedule_job: {} for None, {job} once load() built one
    jobs,          \* the jobs the host scheduler (self.mb.schedule) holds
    state,         \* lifecycle state seen by the host: "Unloaded" / "Loaded"
    op,            \* the call that ran last
    raised,        \* whether that call propagated an exception to its caller
    schedCall,     \* outcome of the most recent scheduler API call
    calls,         \* external calls made during the last call, in order
    movies,        \* push_hot_media: result of the "movie" fetch
    tvs,           \* push_hot_media: result of the "tv" fetch
    handed,        \* <<items>> when send_notification(items) was called, else <<>>
    text,          \* the text given to send_message, as a sequence of pieces
    fetched,       \* the list a direct get_douban_hot call returned
    env,           \* what the host and the network answered during the last call
    repeat         \* how often in a row the last lifecycle hook ran, up to MaxRepeat

vars == <<config, schedule_job, jobs, state, op, raised, schedCall, calls,
          movies, tvs, handed, text, fetched, env, repeat>>

(***************************************************************************)
(* Bounds of the model.                                                    *)
(***************************************************************************)
\* longest listing the external API answers with
MaxResp == 3
\* consecutive calls of one lifecycle hook that are told apart
MaxRepeat == 2
\* longest listing answered to a direct get_douban_hot call
MaxFetch == 2
\* longest item list given to a direct send_notification call
MaxFmt == 2

(***************************************************************************)
(* Python values.                                                          *)
(***************************************************************************)
Str(chars) == [k |-> "str", s |-> chars]
Num(digits) == [k |-> "int", s |-> digits]
PyNone == [k |-> "none", s |-> <<>>]
Missing == [k |-> "missing", s |-> <<>>]

\* bool(v): None, "", 0 and a missing key's None are falsy
Truthy(v) ==
    CASE v.k = "str" -> v.s # <<>>
      [] v.k = "int" -> v.s # <<"0">>
      [] v.k = "obj" -> TRUE
      [] OTHER -> FALSE

Digits == {"0", "1", "2", "3", "4", "5", "6", "7", "8", "9"}

DigitVal(c) ==
    CASE c = "0" -> 0 [] c = "1" -> 1 [] c = "2" -> 2 [] c = "3" -> 3
      [] c = "4" -> 4 [] c = "5" -> 5 [] c = "6" -> 6 [] c = "7" -> 7
      [] c = "8" -> 8 [] c = "9" -> 9

\* str.strip(): whitespace removed at both ends
RECURSIVE LStrip(_)
LStrip(s) == IF s # <<>> /\ Head(s) = " " THEN LStrip(Tail(s)) ELSE s

RECURSIVE RStrip(_)
RStrip(s) ==
    IF s # <<>> /\ s[Len(s)] = " " THEN RStrip(SubSeq(s, 1, Len(s) - 1)) ELSE s

Strip(s) == RStrip(LStrip(s))

\* str.split(':'): the fields between the colons, one more than the colons
RECURSIVE SplitFrom(_, _, _)
SplitFrom(s, cur, acc) ==
    IF s = <<>> THEN Append(acc, cur)
    ELSE IF Head(s) = ":" THEN SplitFrom(Tail(s), <<>>, Append(acc, cur))
    ELSE SplitFrom(Tail(s), Append(cur, Head(s)), acc)

Split(s) == SplitFrom(s, <<>>, <<>>)

\* the digits of an int literal: digits, single underscores only between digits
IntBodyOK(b) ==
    /\ b # <<>>
    /\ \A i \in 1..Len(b) : b[i] \in Digits \cup {"_"}
    /\ b[1] # "_" /\ b[Len(b)] # "_"
    /\ \A i \in 1..(Len(b) - 1) : ~(b[i] = "_" /\ b[i + 1] = "_")

RECURSIVE Decimal(_, _)
Decimal(b, acc) ==
    IF b = <<>> THEN acc
    ELSE IF Head(b) = "_" THEN Decimal(Tail(b), acc)
    ELSE Decimal(Tail(b), 10 * acc + DigitVal(Head(b)))

\* int(s) for a str: [ok, v]; ok = FALSE is ValueError
py_int(s) ==
    LET t == Strip(s)
        signed == t # <<>> /\ Head(t) \in {"+", "-"}
        body == IF signed THEN Tail(t) ELSE t
    IN  IF IntBodyOK(body)
        THEN [ok |-> TRUE,
              v |-> IF signed /\ Head(t) = "-" THEN 0 - Decimal(body, 0)
                    ELSE Decimal(body, 0)]
        ELSE [ok |-> FALSE, v |-> 0]

\* dict.get(key, default)
Get(d, key, default) == IF key \in DOMAIN d THEN d[key] ELSE default

(***************************************************************************)
(* Configuration.                                                          *)
(***************************************************************************)
DefaultPushTime == Str(<<"1", "0", ":", "0", "0">>)
DefaultMaxItems == 5
DefaultHour == 10
DefaultMinute == 0

DefaultConfig == [push_time |-> DefaultPushTime, max_items |-> DefaultMaxItems]

\* get_config(): what read_default_config() gave when it is a non-empty
\* mapping, the defaults when it is empty, None or raised
get_config(host) ==
    IF host.k = "dict" /\ DOMAIN host.d # {} THEN host.d ELSE DefaultConfig

PushTimes ==
    { Str(<<"9", ":", "0", "5">>),
      Str(<<"1", "0", ":", "0", "0">>),
      Str(<<"a", "b", "c">>),
      Str(<<"1", "0", "0", "0">>),
      Str(<<"1", ":", "2", ":", "3">>),
      Str(<<>>),
      Str(<<"9", ":">>),
      Str(<<" ", "9", ":", "5", " ">>),
      Str(<<"-", "1", ":", "3", "0">>),
      Str(<<"2", "5", ":", "6", "1">>),
      Str(<<"1", "_", "0", ":", "7">>),
      Str(<<"9", ":", "0", "a">>),
      Num(<<"9", "0", "5">>),
      PyNone }

MaxItemsValues == {1, 3}

\* what read_default_config() can answer
HostConfigs ==
    { [k |-> "raise", d |-> << >>], [k |-> "none", d |-> << >>],
      [k |-> "dict", d |-> << >>] }
    \cup { [k |-> "dict", d |-> [push_time |-> p, max_items |-> 3]] :
             p \in PushTimes }
    \cup { [k |-> "dict", d |-> [push_time |-> Str(<<"9", ":", "0", "5">>)]] }
    \cup { [k |-> "dict", d |-> [max_items |-> m]] : m \in MaxItemsValues }

(***************************************************************************)
(* load(): the push_time parse.                                            *)
(***************************************************************************)
\* hour, minute = map(int, push_time.split(':')) under the bare except:
\* a non-str value, a field int() rejects, or a field count other than two
\* gives 10, 0
ParsePushTimeSwapped(push_time) ==
    LET f == IF push_time.k = "str" THEN Split(push_time.s) ELSE <<>>
    IN  IF push_time.k = "str" /\ Len(f) = 2 /\ py_int(f[1]).ok /\ py_int(f[2]).ok
        THEN [hour |-> py_int(f[2]).v, minute |-> py_int(f[1]).v]
        ELSE [hour |-> DefaultMinute, minute |-> DefaultHour]

ParsePushTime(push_time) ==
    IF push_time.k # "str" THEN [hour |-> DefaultHour, minute |-> DefaultMinute]
    ELSE LET f == Split(push_time.s)
         IN  IF Len(f) = 2 /\ py_int(f[1]).ok /\ py_int(f[2]).ok
             THEN [hour |-> py_int(f[1]).v, minute |-> py_int(f[2]).v]
             ELSE [hour |-> DefaultHour, minute |-> DefaultMinute]

(***************************************************************************)
(* The host scheduler, keyed by job identifier.                            *)
(***************************************************************************)
plugin_id == "HotMediaDaily"

\* job_id=f"{self.plugin_id}_push_job"
JobIdPerCall == <<plugin_id, "_push_job", Cardinality(jobs)>>

JobId == <<plugin_id, "_push_job", 0>>

ScheduleJob(id, hour, minute) == [job_id |-> id, hour |-> hour, minute |-> minute]

\* self.mb.schedule.add_job(job): on "ok" the job is stored under its
\* identifier, on "raise" the call raises and stores nothing
add_job(js, job, outcome) ==
    IF outcome = "ok"
    THEN [jobs |-> {j \in js : j.job_id # job.job_id} \cup {job}, exc |-> FALSE,
          res |-> "add_ok"]
    ELSE [jobs |-> js, exc |-> TRUE, res |-> "add_fail"]

\* self.mb.schedule.remove_job(job_id): on "ok" no job of that identifier
\* is left, on "raise" the call raises and removes nothing
remove_job(js, id, outcome) ==
    IF outcome = "ok"
    THEN [jobs |-> {j \in js : j.job_id # id}, exc |-> FALSE, res |-> "remove_ok"]
    ELSE [jobs |-> js, exc |-> TRUE, res |-> "remove_fail"]

\* try: add_job(...) except Exception: log
add_job_unguarded(js, job, outcome) == add_job(js, job, outcome)

add_job_guarded(js, job, outcome) ==
    [add_job(js, job, outcome) EXCEPT !.exc = FALSE]

\* try: remove_job(...) except Exception: log
remove_job_unguarded(js, id, outcome) == remove_job(js, id, outcome)

remove_job_guarded(js, id, outcome) ==
    [remove_job(js, id, outcome) EXCEPT !.exc = FALSE]

\* the identifier unload() passes to remove_job: self.schedule_job.job_id
RemoveTargetPluginId(job) == <<plugin_id, "", 0>>

RemoveTarget(job) == job.job_id

Outcomes == {"ok", "raise"}

(***************************************************************************)
(* Lifecycle.                                                              *)
(***************************************************************************)
\* __init__: the configuration is read, no job is held
InitWith(cfg, e) ==
    /\ config = cfg
    /\ schedule_job = {}
    /\ jobs = {}
    /\ state = "Unloaded"
    /\ op = "init"
    /\ raised = FALSE
    /\ schedCall = "none"
    /\ calls = <<>>
    /\ movies = <<>>
    /\ tvs = <<>>
    /\ handed = <<>>
    /\ text = <<>>
    /\ fetched = <<>>
    /\ env = e
    /\ repeat = 0

Init == \E h \in HostConfigs : InitWith(get_config(h), [call |-> "init"])

Load ==
    \E outcome \in Outcomes :
        LET t == ParsePushTime(Get(config, "push_time", DefaultPushTime))
            job == ScheduleJob(JobId, t.hour, t.minute)
            r == add_job_guarded(jobs, job, outcome)
        IN  /\ schedule_job' = {job}
            /\ jobs' = r.jobs
            /\ schedCall' = r.res
            /\ calls' = <<<<"add_job", job.job_id>>>>
            /\ raised' = r.exc
            /\ state' = IF r.exc THEN state ELSE "Loaded"
            /\ op' = "load"
            /\ movies' = <<>> /\ tvs' = <<>> /\ handed' = <<>>
            /\ text' = <<>> /\ fetched' = <<>>
            /\ env' = [call |-> "add_job", outcome |-> outcome]
            /\ repeat' = IF state = "Loaded" /\ repeat < MaxRepeat THEN repeat + 1
                         ELSE IF state = "Loaded" THEN repeat ELSE 1
            /\ UNCHANGED config

Unload ==
    /\ op' = "unload"
    /\ movies' = <<>> /\ tvs' = <<>> /\ handed' = <<>>
    /\ text' = <<>> /\ fetched' = <<>>
    /\ UNCHANGED <<config, schedule_job>>
    /\ repeat' = IF state = "Unloaded" /\ repeat < MaxRepeat THEN repeat + 1
                 ELSE IF state = "Unloaded" THEN repeat ELSE 1
    /\ IF schedule_job # {}
       THEN \E outcome \in Outcomes :
              LET job == CHOOSE j \in schedule_job : TRUE
                  r == remove_job_guarded(jobs, RemoveTarget(job), outcome)
              IN  /\ jobs' = r.jobs
                  /\ schedCall' = r.res
                  /\ calls' = <<<<"remove_job", RemoveTarget(job)>>>>
                  /\ raised' = r.exc
                  /\ state' = IF r.exc THEN state ELSE "Unloaded"
                  /\ env' = [call |-> "remove_job", outcome |-> outcome]
       ELSE /\ calls' = <<>>
            /\ env' = [call |-> "none"]
            /\ raised' = FALSE
            /\ state' = "Unloaded"
            /\ UNCHANGED <<jobs, schedCall>>

(***************************************************************************)
(* get_douban_hot: one listing of the external API.                        *)
(***************************************************************************)
\* the character the year strings end with, and the space around them
YearSuffix == "nian"

\* str.replace(c, ''): every occurrence removed
RECURSIVE RemoveAll(_, _)
RemoveAll(s, c) ==
    IF s = <<>> THEN <<>>
    ELSE IF Head(s) = c THEN RemoveAll(Tail(s), c)
    ELSE <<Head(s)>> \o RemoveAll(Tail(s), c)

\* parse_year: "" for a falsy value and for one without .replace
parse_year(year_str) ==
    IF ~Truthy(year_str) THEN Str(<<>>)
    ELSE IF year_str.k = "str" THEN Str(Strip(RemoveAll(year_str.s, YearSuffix)))
    ELSE Str(<<>>)

\* the endpoints get_douban_hot knows
api_endpoints == {"movie", "tv"}

\* items[:count] for an int count
Slice(items, count) ==
    LET n == Len(items)
        e == IF count < 0 THEN (IF n + count < 0 THEN 0 ELSE n + count)
             ELSE (IF count < n THEN count ELSE n)
    IN  SubSeq(items, 1, e)

\* item.get('rating', {}).get('value') raises for a rating that is no object
RatingRaises(item) == item.k # "obj" \/ item.rating.k \in {"none", "int"}

\* one entry of the result list
MediaItem(item, media_type) ==
    [title |-> IF item.title.k = "missing" THEN Str(<<>>) ELSE item.title,
     year |-> parse_year(IF item.year.k = "missing" THEN PyNone ELSE item.year),
     rating |-> IF item.rating.k = "missing" \/ item.rating.value.k = "missing"
                THEN PyNone ELSE item.rating.value,
     douban_id |-> IF item.id.k = "missing" THEN PyNone ELSE item.id,
     media_type |-> media_type]

\* the try block of get_douban_hot: exc is an exception leaving the block
fetch_try(media_type, count, resp) ==
    LET req == <<<<"GET", media_type, count>>>>
        fail == [exc |-> TRUE, result |-> <<>>, calls |-> req]
    IN  CASE resp.k \in {"neterr", "badjson", "toplist", "nullitems"} -> fail
          [] resp.k = "nokey" -> [exc |-> FALSE, result |-> <<>>, calls |-> req]
          [] resp.k = "ok" ->
               LET items == Slice(resp.items, count)
               IN  IF \E i \in 1..Len(items) : RatingRaises(items[i]) THEN fail
                   ELSE [exc |-> FALSE,
                         result |-> [i \in 1..Len(items) |->
                                       MediaItem(items[i], media_type)],
                         calls |-> req]

get_douban_hot_uncaught(media_type, count, resp) ==
    IF media_type \notin api_endpoints
    THEN [exc |-> FALSE, result |-> <<>>, calls |-> <<>>]
    ELSE fetch_try(media_type, count, resp)

\* get_douban_hot: [] without a request for an unknown media_type, and
\* except Exception: return [] around the request and the mapping
get_douban_hot(media_type, count, resp) ==
    IF media_type \notin api_endpoints
    THEN [exc |-> FALSE, result |-> <<>>, calls |-> <<>>]
    ELSE LET r == fetch_try(media_type, count, resp)
         IN  IF r.exc THEN [exc |-> FALSE, result |-> <<>>, calls |-> r.calls]
             ELSE r

(***************************************************************************)
(* send_notification: the message text and the one send_message call.     *)
(***************************************************************************)
Lit(x) == [k |-> "lit", s |-> <<x>>]

Count(items, media_type) ==
    Cardinality({i \in 1..Len(items) : items[i].media_type = media_type})

Header(items) ==
    << Lit("hot today ("), Lit("today"), Lit(")\n\n"),
       Lit("movies: "), Lit(ToString(Count(items, "movie"))), Lit("\n"),
       Lit("series: "), Lit(ToString(Count(items, "tv"))), Lit("\n\n") >>

\* the pieces the loop body appends for the i-th item
Entry(i, item) ==
    << Lit(ToString(i)), Lit(". ["),
       Lit(IF item.media_type = "movie" THEN "movie" ELSE "series"), Lit("] "),
       item.title, Lit(" ("), item.year, Lit(")") >>
    \o (IF Truthy(item.rating) THEN <<Lit(" *"), item.rating>> ELSE <<>>)
    \o (IF Truthy(item.douban_id)
        THEN <<Lit("\nlink: subject/"), item.douban_id, Lit("/")>> ELSE <<>>)
    \o <<Lit("\n\n")>>

RECURSIVE Entries(_, _)
Entries(items, i) ==
    IF i > Len(items) THEN <<>>
    ELSE Entry(i, items[i]) \o Entries(items, i + 1)

\* send_notification(items): exc when send_message raises
send_notification(items, sendOutcome) ==
    LET body == Header(items) \o Entries(items, 1)
    IN  [exc |-> sendOutcome = "raise",
         text |-> body,
         calls |-> <<<<"send_message", "Plugin", "title">>>>]

(***************************************************************************)
(* push_hot_media.                                                         *)
(***************************************************************************)
\* all_items = movies + tvs
CombineReversed(m, t) == t \o m

Combine(m, t) == m \o t

\* if not all_items: return
ShouldSendAlways(all_items) == TRUE

ShouldSend(all_items) == all_items # <<>>

\* the try block of push_hot_media
push_try(cfg, respM, respT, sendOutcome) ==
    LET max_items == Get(cfg, "max_items", DefaultMaxItems)
        m == get_douban_hot("movie", max_items, respM)
        t == get_douban_hot("tv", max_items, respT)
        all_items == Combine(m.result, t.result)
        n == send_notification(all_items, sendOutcome)
        none == [exc |-> FALSE, movies |-> <<>>, tvs |-> <<>>, handed |-> <<>>,
                 text |-> <<>>, calls |-> <<>>]
    IN  IF m.exc THEN [none EXCEPT !.exc = TRUE, !.calls = m.calls]
        ELSE IF t.exc
        THEN [none EXCEPT !.exc = TRUE, !.movies = m.result,
                          !.calls = m.calls \o t.calls]
        ELSE IF ~ShouldSend(all_items)
        THEN [none EXCEPT !.movies = m.result, !.tvs = t.result,
                          !.calls = m.calls \o t.calls]
        ELSE [exc |-> n.exc, movies |-> m.result, tvs |-> t.result,
              handed |-> <<all_items>>, text |-> n.text,
              calls |-> m.calls \o t.calls \o n.calls]

push_hot_media_uncaught(cfg, respM, respT, sendOutcome) ==
    push_try(cfg, respM, respT, sendOutcome)

\* except Exception: log with the trace
push_hot_media(cfg, respM, respT, sendOutcome) ==
    [push_try(cfg, respM, respT, sendOutcome) EXCEPT !.exc = FALSE]

(***************************************************************************)
(* The external API's answers.                                             *)
(***************************************************************************)
Resp(kind, items) == [k |-> kind, items |-> items]

Rating(kind, value) == [k |-> kind, value |-> value]

Raw(title, year, rating, id) ==
    [k |-> "obj", title |-> title, year |-> year, rating |-> rating, id |-> id]

NullItem == [k |-> "null", title |-> Missing, year |-> Missing,
             rating |-> Rating("missing", Missing), id |-> Missing]

\* urlopen raising, json.loads raising, a JSON list, a null item array,
\* an object without the item array
FailureKinds == {"neterr", "badjson", "toplist", "nullitems", "nokey"}

\* the i-th entry of the listing the API ranks for a category
Catalogue(media_type, i) ==
    LET title == Str(<<media_type, ToString(i)>>)
    IN  CASE i % 3 = 1 ->
               Raw(title, Str(<<"2", "0", "2", "4", YearSuffix>>),
                   Rating("obj", Num(<<"8">>)), Str(<<"7">>))
          [] i % 3 = 2 ->
               Raw(title, Missing, Rating("obj", Missing), Str(<<"8">>))
          [] OTHER ->
               Raw(title, Str(<<" ", "2", "0", "2", "3">>),
                   Rating("missing", Missing), Missing)

Listing(media_type, n) == [i \in 1..n |-> Catalogue(media_type, i)]

PushResponses(media_type) ==
    {Resp(f, <<>>) : f \in {"neterr", "badjson"}}
    \cup {Resp("ok", Listing(media_type, n)) : n \in 0..MaxResp}

Push ==
    /\ jobs # {}
    /\ \E respM \in PushResponses("movie"), respT \in PushResponses("tv"),
          sendOutcome \in Outcomes :
          \E r \in {push_hot_media(config, respM, respT, sendOutcome)} :
              /\ op' = "push"
              /\ raised' = r.exc
              /\ calls' = r.calls
              /\ movies' = r.movies
              /\ tvs' = r.tvs
              /\ handed' = r.handed
              /\ text' = r.text
              /\ fetched' = <<>>
              /\ env' = [call |-> "push", movie |-> respM.k, tv |-> respT.k,
                          send |-> sendOutcome]
              /\ UNCHANGED <<config, schedule_job, jobs, state, schedCall, repeat>>

Next == Load \/ Unload \/ Push

Spec == Init /\ [][Next]_vars

(***************************************************************************)
(* Direct calls of get_douban_hot and of send_notification.                *)
(***************************************************************************)
Categories == {"movie", "tv", "music"}

Counts == {0, 1, 5}

RawItems ==
    { Raw(Str(<<"A">>), y, r, i) :
        y \in {Missing, Str(<<"2", "0", "2", "4", YearSuffix>>),
               Num(<<"2", "0", "2", "4">>)},
        r \in {Rating("missing", Missing), Rating("none", Missing),
               Rating("obj", Num(<<"8">>)), Rating("obj", Missing)},
        i \in {Missing, Str(<<"7">>)} }
    \cup {NullItem}

SeqsUpTo(S, n) == UNION {[1..m -> S] : m \in 0..n}

FetchResponses ==
    {Resp(f, <<>>) : f \in FailureKinds}
    \cup {Resp("ok", l) : l \in SeqsUpTo(RawItems, MaxFetch)}

\* a caller about to call get_douban_hot(media_type, count) on a new instance
InitFetch ==
    \E media_type \in Categories, count \in Counts, resp \in FetchResponses :
        InitWith(DefaultConfig, [call |-> "fetch", media_type |-> media_type,
                                 count |-> count, resp |-> resp])

GetDoubanHot ==
    /\ op = "init"
    /\ env.call = "fetch"
    /\ \E r \in {get_douban_hot(env.media_type, env.count, env.resp)} :
            /\ op' = "fetch"
            /\ raised' = r.exc
            /\ calls' = r.calls
            /\ fetched' = r.result
            /\ movies' = <<>> /\ tvs' = <<>> /\ handed' = <<>> /\ text' = <<>>
            /\ UNCHANGED <<config, schedule_job, jobs, state, schedCall, env, repeat>>

NextFetch == GetDoubanHot

SpecFetch == InitFetch /\ [][NextFetch]_vars

\* the items get_douban_hot can hand on
FmtItems ==
    { [title |-> Str(<<"A">>), year |-> y, rating |-> r, douban_id |-> i,
       media_type |-> c] :
        y \in {Str(<<>>), Str(<<"2", "0", "2", "4">>)},
        r \in {PyNone, Num(<<"8">>)},
        i \in {PyNone, Str(<<"7">>)},
        c \in api_endpoints }

\* a caller about to call send_notification(items) on a new instance
InitFmt ==
    \E items \in SeqsUpTo(FmtItems, MaxFmt), sendOutcome \in Outcomes :
        InitWith(DefaultConfig, [call |-> "format", items |-> items,
                                 send |-> sendOutcome])

SendNotification ==
    /\ op = "init"
    /\ env.call = "format"
    /\ \E r \in {send_notification(env.items, env.send)} :
            /\ op' = "format"
            /\ raised' = r.exc
            /\ calls' = r.calls
            /\ handed' = <<env.items>>
            /\ text' = r.text
            /\ movies' = <<>> /\ tvs' = <<>> /\ fetched' = <<>>
            /\ UNCHANGED <<config, schedule_job, jobs, state, schedCall, env, repeat>>

NextFmt == SendNotification

SpecFmt == InitFmt /\ [][NextFmt]_vars
(***************************************************************************)
(* Properties.                                                             *)
(***************************************************************************)
HasCall(name) == \E i \in 1..Len(calls) : calls[i][1] = name

CallsNamed(name) == Cardinality({i \in 1..Len(calls) : calls[i][1] = name})

OneColonAt(s, i) ==
    /\ s[i] = ":"
    /\ \A j \in 1..Len(s) : j # i => s[j] # ":"

IsHM(p) ==
    /\ p.k = "str"
    /\ \E i \in 1..Len(p.s) :
          /\ OneColonAt(p.s, i)
          /\ py_int(SubSeq(p.s, 1, i - 1)).ok
          /\ py_int(SubSeq(p.s, i + 1, Len(p.s))).ok

HourOf(p) ==
    LET i == CHOOSE n \in 1..Len(p.s) : p.s[n] = ":"
    IN  py_int(SubSeq(p.s, 1, i - 1)).v

MinuteOf(p) ==
    LET i == CHOOSE n \in 1..Len(p.s) : p.s[n] = ":"
    IN  py_int(SubSeq(p.s, i + 1, Len(p.s))).v

C5_JobTime ==
    op = "load" =>
        LET p == Get(config, "push_time", DefaultPushTime)
        IN  /\ schedule_job # {}
            /\ env.outcome = "ok" => jobs = schedule_job
            /\ \A j \in schedule_job :
                  /\ IsHM(p) => (j.hour = HourOf(p) /\ j.minute = MinuteOf(p))
                  /\ ~IsHM(p) => (j.hour = 10 /\ j.minute = 0)
                  /\ p = Str(<<"9", ":", "0", "5">>) => (j.hour = 9 /\ j.minute = 5)
                  /\ p = Str(<<"a", "b", "c">>) => (j.hour = 10 /\ j.minute = 0)

\* push_time "9:05" registered at hour 9, minute 5
C5_Witness ==
    /\ op = "load" /\ env.outcome = "ok"
    /\ "push_time" \in DOMAIN config
    /\ config.push_time = Str(<<"9", ":", "0", "5">>)
    /\ \E j \in jobs : j.hour = 9 /\ j.minute = 5

\* C7: unload() never raises; with no job held it makes no remove call; with
\* one held it makes exactly one, and when that call succeeds no job is left.
C7_UnloadNeverRaises ==
    op = "unload" =>
        /\ ~raised
        /\ state = "Unloaded"
        /\ schedule_job = {} => calls = <<>>
        /\ schedule_job # {} => CallsNamed("remove_job") = 1
        /\ (schedule_job # {} /\ env.outcome = "ok") => jobs = {}

\* a second unload() in a row whose remove call fails on the absent job
C7_Witness ==
    /\ op = "unload" /\ repeat = 2 /\ schedule_job # {}
    /\ env.outcome = "raise" /\ schedCall = "remove_fail"
    /\ jobs = {} /\ ~raised /\ state = "Unloaded"

C3_NoSendWhenEmpty ==
    op = "push" =>
        /\ (movies = <<>> /\ tvs = <<>>) => (~HasCall("send_message") /\ handed = <<>>)
        /\ HasCall("send_message") => (handed # <<>> /\ handed[1] # <<>>)
        /\ CallsNamed("send_message") <= 1

\* the movie fetch failed, the series listing was empty: nothing was sent
C3_Witness ==
    /\ op = "push" /\ env.movie = "neterr" /\ env.tv = "ok"
    /\ movies = <<>> /\ tvs = <<>>
    /\ ~HasCall("send_message")

\* C4: the list handed to the formatter is the movie result followed by the
\* series result: its length is the sum of the two, no series item precedes
\* a movie item, a failed fetch leaves its own category empty and the other
\* one whole, and each category is requested exactly once.
Failed(kind) == kind \in {"neterr", "badjson"}

C4_MoviesThenSeries ==
    op = "push" =>
        /\ calls[1][2] = "movie" /\ calls[2][2] = "tv"
        /\ CallsNamed("GET") = 2
        /\ Failed(env.movie) => movies = <<>>
        /\ Failed(env.tv) => tvs = <<>>
        /\ \A i \in 1..Len(movies) : movies[i].media_type = "movie"
        /\ \A i \in 1..Len(tvs) : tvs[i].media_type = "tv"
        /\ handed # <<>> =>
              LET all_items == handed[1]
              IN  /\ Len(all_items) = Len(movies) + Len(tvs)
                  /\ \A i \in 1..Len(movies) : all_items[i] = movies[i]
                  /\ \A i \in 1..Len(tvs) : all_items[Len(movies) + i] = tvs[i]
                  /\ \A i, j \in 1..Len(all_items) :
                        (all_items[i].media_type = "movie"
                           /\ all_items[j].media_type = "tv") => i < j
                  /\ (Len(movies) = 3 /\ Len(tvs) = 3) => Len(all_items) = 6

\* max_items = 3 and three items from each fetch: six items handed on
C4_Witness ==
    /\ op = "push" /\ Get(config, "max_items", DefaultMaxItems) = 3
    /\ Len(movies) = 3 /\ Len(tvs) = 3
    /\ handed # <<>> /\ Len(handed[1]) = 6

\* C8: a push never propagates an exception, and it leaves the lifecycle
\* state, the configuration, the held job and the scheduler's jobs as they
\* were.
C8_PushNeverRaises ==
    [][op' = "push" =>
          /\ ~raised'
          /\ UNCHANGED <<state, config, schedule_job, jobs>>]_vars

\* send_message raised during a push and the push returned normally
C8_Witness ==
    /\ op = "push" /\ env.send = "raise" /\ HasCall("send_message")
    /\ ~raised

\* C6: get_douban_hot never raises; it returns [] when the request or the
\* decoding fails, when the answer has the wrong shape, and when an item it
\* maps is malformed; for an unknown category it returns [] and requests
\* nothing.
Malformed(item) == item.k # "obj" \/ item.rating.k = "none"

Mapped(resp, count) ==
    IF count < Len(resp.items) THEN count ELSE Len(resp.items)

C6_FetchNeverRaises ==
    op = "fetch" =>
        /\ ~raised
        /\ env.media_type \notin {"movie", "tv"} => (fetched = <<>> /\ calls = <<>>)
        /\ env.media_type \in {"movie", "tv"} => Len(calls) = 1
        /\ env.resp.k # "ok" => fetched = <<>>
        /\ (env.resp.k = "ok"
              /\ \E i \in 1..Mapped(env.resp, env.count) : Malformed(env.resp.items[i]))
             => fetched = <<>>
        /\ (env.resp.k = "ok" /\ env.media_type \in {"movie", "tv"}
              /\ \A i \in 1..Mapped(env.resp, env.count) : ~Malformed(env.resp.items[i]))
             => Len(fetched) = Mapped(env.resp, env.count)

\* a listing whose second item has a null rating: [] and no exception
C6_Witness ==
    /\ op = "fetch" /\ env.media_type = "movie" /\ env.count = 5
    /\ env.resp.k = "ok" /\ Len(env.resp.items) = 2
    /\ ~Malformed(env.resp.items[1])
    /\ env.resp.items[2].k = "obj" /\ env.resp.items[2].rating.k = "none"
    /\ fetched = <<>> /\ ~raised

\* C10: in the text sent, the entries are numbered 1, 2, ... in list order,
\* and an entry has its year part exactly when the item has a non-empty
\* year, its star and rating exactly when the item has a rating, and its
\* link line exactly when the item has an identifier.
HeaderLen == Len(Header(<<>>))

RECURSIVE EntriesOf(_, _, _)
EntriesOf(t, cur, acc) ==
    IF t = <<>> THEN acc
    ELSE IF Head(t) = Lit("\n\n") THEN EntriesOf(Tail(t), <<>>, Append(acc, cur))
    ELSE EntriesOf(Tail(t), Append(cur, Head(t)), acc)

Has(entry, piece) == \E i \in 1..Len(entry) : entry[i] = piece

C10_OptionalParts ==
    (op = "format" /\ HasCall("send_message")) =>
        LET items == handed[1]
            es == EntriesOf(SubSeq(text, HeaderLen + 1, Len(text)), <<>>, <<>>)
        IN  /\ Len(es) = Len(items)
            /\ \A i \in 1..Len(items) :
                  /\ es[i][1] = Lit(ToString(i))
                  /\ Has(es[i], items[i].title)
                  /\ Has(es[i], Lit(" (")) <=> items[i].year.s # <<>>
                  /\ Has(es[i], Lit(" *")) <=> Truthy(items[i].rating)
                  /\ Has(es[i], Lit("\nlink: subject/")) <=> Truthy(items[i].douban_id)
====
